---- MODULE Spec2Model ----
(***************************************************************************)
(* A model of yamaha-rcp-rs (src/src/lib.rs): the TFMixer handle, its      *)
(* pool of Connections, the per-connection reader task, send_command and   *)
(* fade, together with the console at the other end of every socket.       *)
(*                                                                         *)
(* One handle is modelled.  After TFMixer::new it is used by NumCallers    *)
(* concurrent tasks; every await point of send_command is a separate step. *)
(*                                                                         *)
(* The console sends one OK or ERROR line for each command it received and *)
(* may send lines that are neither; a line reaches the reader task whole,  *)
(* in one read.  The stream can be closed by the console or break at any   *)
(* time, a write or a connect can fail, and a caller can drop the future   *)
(* of an operation at any await point.                                     *)
(*                                                                         *)
(* Spec, FairSpec and LiveSpec are about the pool and the callers; there   *)
(* a command and a line are records.  FadeSpec runs the fades of a single  *)
(* caller over more arguments.  CodecSpec runs the public operations of a  *)
(* single caller character by character, from the format! of a command to  *)
(* the decoded reply, against a console that stores and echoes what is set.*)
(* FrameSpec runs the reader task of the initial Connection byte by byte,  *)
(* with reads of any size.                                                 *)
(***************************************************************************)
EXTENDS Integers, Sequences, FiniteSets, TLC

\* ------------------------------------------------------------------ bounds
NumCallers == 2
MaxLimit == 10
MaxCalls == 1
MaxSteps == 2
MaxUnsolicited == 1

\* ------------------------------------------------------- program constants
max_fader_val == 1000
min_fader_val == -13800
neg_inf_val == -32768
InitialNumConnections == 8
DefaultConnectionLimit == 1
QueueCapacity == 16
FadeStepMs == 50
U8Modulus == 256
I32Max == 2147483647

Callers == 1..NumCallers
Channels == {1, 2}
NoCaller == 0

VARIABLES
    connection_limit,   \* TFMixer.connection_limit
    num_connections,    \* TFMixer.num_connections (the value inside the mutex)
    connections,        \* TFMixer.connections: the Vec of idle Connections (ids)
    connsLock,          \* owner of the connections mutex, NoCaller when free
    numLock,            \* owner of the num_connections mutex, NoCaller when free
    nextId,             \* identity of the next Connection to be created
    reader,             \* per existing Connection: state of its reader task
    socket,             \* per existing Connection: state of the TCP stream
    pending,            \* per Connection: commands the console has not answered
    inbound,            \* per Connection: lines sent by the console, not yet read
    queue,              \* per Connection: the mpsc channel reader -> Connection
    unsolicited,        \* number of unsolicited lines the console has emitted
    pc,                 \* per caller: the await point it is suspended at
    conn,               \* per caller: the Connection held by its send_command
    cmd,                \* per caller: the command of its send_command
    result,             \* per caller: the outcome of its last operation
    calls,              \* per caller: number of operations started
    op,                 \* per caller: the public operation in progress
    fade,               \* per caller: the locals of its fade call
    issued,             \* per caller: values written by its current operation
    reply,              \* per caller: the local `result` of its send_command
    store,              \* the console's parameters: the value text of each path and channel
    wire,               \* the bytes written to the socket by the last operation
    ret,                \* what the last operation returned to its caller
    request,            \* the last operation called and its arguments
    stream,             \* bytes sent by the console on the initial Connection, not yet read
    sent,               \* every byte the console has sent on the initial Connection
    framed,             \* the lines its reader task has taken off the stream
    forwarded           \* the lines its reader task has sent into the queue

poolVars == <<connection_limit, num_connections, connections, connsLock, numLock, nextId>>
netVars == <<reader, socket, pending, inbound, queue, unsolicited>>
callVars == <<pc, conn, cmd, result, calls, op, fade, issued, reply>>
codecVars == <<store, wire, ret, request>>
frameVars == <<stream, sent, framed, forwarded>>
wireVars == <<codecVars, frameVars>>
vars == <<poolVars, netVars, callVars, wireVars>>

\* ----------------------------------------------------------------- helpers
NoConn == -1
NoCmd == [by |-> NoCaller, call |-> 0, n |-> 0, ch |-> 0, val |-> 0]
NoLine == [kind |-> "none", re |-> NoCmd]
NoFade == [channel |-> 0, duration_ms |-> 0, arg_initial |-> 0, arg_final |-> 0,
           initial_value |-> 0, final_value |-> 0,
           num_steps |-> 0, step_delta |-> 0, current_value |-> 0, i |-> 0,
           final |-> FALSE]
NoResult == [kind |-> "none", line |-> NoLine]

Range(s) == {s[i] : i \in DOMAIN s}
Front(s) == SubSeq(s, 1, Len(s) - 1)
Last(s) == s[Len(s)]
Abs(a) == IF a < 0 THEN -a ELSE a

\* The Connections that exist: idle in the pool or held by a caller.
Existing == DOMAIN reader
Held == {conn[p] : p \in Callers} \ {NoConn}
OpenCount == Cardinality(Existing)

\* A Connection value is dropped: its writer and receiver are destroyed.
Drop(f, c) == [d \in (DOMAIN f) \ {c} |-> f[d]]
Put(f, c, v) == [d \in (DOMAIN f) \cup {c} |-> IF d = c THEN v ELSE f[d]]

\* ------------------------------------------------------------------- text
\* A String or a byte buffer is a sequence of characters, each a one-character
\* string; NotUtf8 stands for a byte that occurs in no UTF-8 encoding.
LF == "\n"
Quote == "\""
Space == " "
NotUtf8 == "0xFF"

Digits == <<"0", "1", "2", "3", "4", "5", "6", "7", "8", "9">>
UpperCase == <<"A", "B", "C", "D", "E", "F", "G", "H", "I", "J", "K", "L", "M", "N", "O", "P", "Q", "R", "S", "T", "U", "V", "W", "X", "Y", "Z">>
LowerCase == <<"a", "b", "c", "d", "e", "f", "g", "h", "i", "j", "k", "l", "m", "n", "o", "p", "q", "r", "s", "t", "u", "v", "w", "x", "y", "z">>

\* str::starts_with and str::ends_with.
StartsWith(t, prefix) ==
    Len(t) >= Len(prefix) /\ SubSeq(t, 1, Len(prefix)) = prefix
EndsWith(t, suffix) ==
    Len(t) >= Len(suffix) /\ SubSeq(t, Len(t) - Len(suffix) + 1, Len(t)) = suffix

\* str::split(sep): the pieces between the separators, empty pieces included;
\* a text without separator is one piece.
RECURSIVE SplitFrom(_, _, _, _)
SplitFrom(t, sep, i, pieces) ==
    IF i > Len(t) THEN pieces
    ELSE IF t[i] = sep THEN SplitFrom(t, sep, i + 1, Append(pieces, <<>>))
    ELSE SplitFrom(t, sep, i + 1, [pieces EXCEPT ![Len(pieces)] = Append(@, t[i])])
Split(t, sep) == SplitFrom(t, sep, 1, <<<<>>>>)

\* [String]::join(sep)
RECURSIVE Join(_, _)
Join(pieces, sep) ==
    IF pieces = <<>> THEN <<>>
    ELSE IF Len(pieces) = 1 THEN pieces[1]
    ELSE pieces[1] \o <<sep>> \o Join(Tail(pieces), sep)

\* str::replace(c, ""): every occurrence of c is removed.
Remove(t, c) == SelectSeq(t, LAMBDA x : x # c)

\* str::to_lowercase on ASCII letters.
LowerChar(c) ==
    IF \E i \in DOMAIN UpperCase : UpperCase[i] = c
    THEN LowerCase[CHOOSE i \in DOMAIN UpperCase : UpperCase[i] = c]
    ELSE c
ToLowercase(t) == [i \in DOMAIN t |-> LowerChar(t[i])]

\* Display of an unsigned integer: its decimal digits.
RECURSIVE NatToText(_)
NatToText(n) ==
    IF n < 10 THEN <<Digits[n + 1]>>
    ELSE NatToText(n \div 10) \o <<Digits[(n % 10) + 1]>>

\* A faulty Display of i32: the sign is left out.
IntToTextUnsigned(v) == NatToText(Abs(v))

\* Display of i32: a minus sign for a negative value, then the digits.
IntToText(v) == IF v < 0 THEN <<"-">> \o NatToText(-v) ELSE NatToText(v)

IsDigit(c) == \E i \in DOMAIN Digits : Digits[i] = c
DigitValue(c) == (CHOOSE i \in DOMAIN Digits : Digits[i] = c) - 1

\* The digit loop of i32::from_str: checked multiplication by ten and checked
\* addition (subtraction for a negative number) of every digit.
RECURSIVE ParseDigits(_, _, _)
ParseDigits(t, acc, negative) ==
    IF t = <<>> THEN [ok |-> TRUE, val |-> acc]
    ELSE IF ~IsDigit(Head(t)) THEN [ok |-> FALSE, val |-> 0]
    ELSE LET d == DigitValue(Head(t))
             tenth == I32Max \div 10
             unit == I32Max % 10
         IN IF negative
            THEN IF acc < -tenth \/ (acc = -tenth /\ d > unit + 1)
                 THEN [ok |-> FALSE, val |-> 0]
                 ELSE ParseDigits(Tail(t), acc * 10 - d, negative)
            ELSE IF acc > tenth \/ (acc = tenth /\ d > unit)
                 THEN [ok |-> FALSE, val |-> 0]
                 ELSE ParseDigits(Tail(t), acc * 10 + d, negative)

\* str::parse::<i32>(): an optional sign and at least one digit.
ParseI32(t) ==
    IF t = <<>> \/ t = <<"-">> \/ t = <<"+">> THEN [ok |-> FALSE, val |-> 0]
    ELSE IF Head(t) = "-" THEN ParseDigits(Tail(t), 0, TRUE)
    ELSE IF Head(t) = "+" THEN ParseDigits(Tail(t), 0, FALSE)
    ELSE ParseDigits(t, 0, FALSE)

\* ---------------------------------------------------------- command lines
LevelPath ==
    <<"M", "I", "X", "E", "R", ":", "C", "u", "r", "r", "e", "n", "t", "/", "I", "n", "C", "h", "/", "F", "a", "d", "e", "r", "/", "L", "e", "v", "e", "l">>
OnPath ==
    <<"M", "I", "X", "E", "R", ":", "C", "u", "r", "r", "e", "n", "t", "/", "I", "n", "C", "h", "/", "F", "a", "d", "e", "r", "/", "O", "n">>
ColorPath ==
    <<"M", "I", "X", "E", "R", ":", "C", "u", "r", "r", "e", "n", "t", "/", "I", "n", "C", "h", "/", "L", "a", "b", "e", "l", "/", "C", "o", "l", "o", "r">>
NamePath ==
    <<"M", "I", "X", "E", "R", ":", "C", "u", "r", "r", "e", "n", "t", "/", "I", "n", "C", "h", "/", "L", "a", "b", "e", "l", "/", "N", "a", "m", "e">>
Paths == {LevelPath, OnPath, ColorPath, NamePath}

\* Display of LabelColor and of SceneList.
LabelColors ==
    {<<"P", "u", "r", "p", "l", "e">>, <<"P", "i", "n", "k">>, <<"R", "e", "d">>,
     <<"O", "r", "a", "n", "g", "e">>, <<"Y", "e", "l", "l", "o", "w">>, <<"B", "l", "u", "e">>,
     <<"S", "k", "y", "B", "l", "u", "e">>, <<"G", "r", "e", "e", "n">>}
SceneLists ==
    {<<"s", "c", "e", "n", "e", "_", "a">>, <<"s", "c", "e", "n", "e", "_", "b">>}

\* The format! of every public operation.
GetCommand(path, channel) ==
    <<"g", "e", "t", Space>> \o path \o <<Space>> \o NatToText(channel) \o <<Space, "0">>
SetCommand(path, channel, value) ==
    <<"s", "e", "t", Space>> \o path \o <<Space>> \o NatToText(channel) \o <<Space, "0", Space>> \o value

FaderLevelCommand(channel) == GetCommand(LevelPath, channel)
SetFaderLevelCommand(channel, value) == SetCommand(LevelPath, channel, IntToText(value))
MutedCommand(channel) == GetCommand(OnPath, channel)

\* `if muted { 0 } else { 1 }`
SetMutedCommand(channel, is_muted) ==
    SetCommand(OnPath, channel, IntToText(IF is_muted THEN 0 ELSE 1))
ColorCommand(channel) == GetCommand(ColorPath, channel)
SetColorCommand(channel, label_color) ==
    SetCommand(ColorPath, channel, <<Quote>> \o label_color \o <<Quote>>)
LabelCommand(channel) == GetCommand(NamePath, channel)
SetLabelCommand(channel, label_text) ==
    SetCommand(NamePath, channel, <<Quote>> \o label_text \o <<Quote>>)
RecallSceneCommand(scene_list, scene_number) ==
    <<"s", "s", "r", "e", "c", "a", "l", "l", "_", "e", "x", Space>> \o scene_list \o <<Space>> \o NatToText(scene_number)

\* ------------------------------------------------------ reader task, bytes
buffer_size == 512

\* A faulty filter: every line is forwarded.
ForwardsAll(line) == TRUE

\* `result.starts_with("ERROR") || result.starts_with("OK")`
Forwards(line) ==
    StartsWith(line, <<"E", "R", "R", "O", "R">>) \/ StartsWith(line, <<"O", "K">>)

\* One pass of the reader task's loop over the bytes of one read.  `line`
\* starts empty on every pass; at each line-feed the bytes gathered since
\* the previous one are decoded (from_utf8(..).unwrap() panics on bytes that
\* are not UTF-8, which ends the task), forwarded if they pass the filter,
\* and cleared.  The bytes after the last line-feed, and the zeros that fill
\* the rest of the buffer, end up in a `line` that is thrown away.
ReadOutcome(chunk) ==
    LET pieces == Front(Split(chunk, LF))
        bad == {i \in DOMAIN pieces : \E k \in DOMAIN pieces[i] : pieces[i][k] = NotUtf8}
        taken == IF bad = {} THEN pieces
                 ELSE SubSeq(pieces, 1, (CHOOSE i \in bad : \A j \in bad : i <= j) - 1)
    IN [framed |-> taken,
        forwarded |-> SelectSeq(taken, Forwards),
        panicked |-> bad # {}]

\* ------------------------------------------------- send_command, the reply
\* The match on the received line; `class` names the arm taken.
ClassifyLine(v) ==
    IF StartsWith(v, <<"E", "R", "R", "O", "R">>)
    THEN [kind |-> "RCPError", class |-> "ERROR", text |-> v]
    ELSE IF StartsWith(v, <<"O", "K">>)
    THEN [kind |-> "Ok", class |-> "OK", text |-> v]
    ELSE [kind |-> "RCPError", class |-> "other", text |-> v]

\* What an operation hands back to its caller: the kind of the Result and the
\* value of an Ok, an i32, a bool or a String (a LabelColor by its name).
Returned(kind, int, bool, text) ==
    [kind |-> kind, int |-> int, bool |-> bool, text |-> text]

\* request_bool after send_command: the last token is compared with "0".
request_bool(response) ==
    Returned("Ok", 0, Last(Split(response, Space)) # <<"0">>, <<>>)

\* request_int after send_command: the last token is parsed as i32.
request_int(response) ==
    LET r == ParseI32(Last(Split(response, Space)))
    IN IF r.ok THEN Returned("Ok", r.val, FALSE, <<>>)
       ELSE Returned("RCPParseError", 0, FALSE, <<>>)

\* The loop of request_string from fragment i on.  fragment[1..len - 1]
\* panics when the fragment is a single quote character (1 > 0).
RECURSIVE Reassemble(_, _, _, _)
Reassemble(fragments, i, looking, resp_vec) ==
    IF i > Len(fragments) THEN [panicked |-> FALSE, resp_vec |-> resp_vec]
    ELSE LET fragment == fragments[i]
             n == Len(fragment)
         IN IF ~looking /\ StartsWith(fragment, <<Quote>>) /\ EndsWith(fragment, <<Quote>>)
            THEN IF 1 > n - 1
                 THEN [panicked |-> TRUE, resp_vec |-> resp_vec]
                 ELSE [panicked |-> FALSE,
                       resp_vec |-> Append(resp_vec, SubSeq(fragment, 2, n - 1))]
            ELSE IF StartsWith(fragment, <<Quote>>) /\ ~looking
            THEN Reassemble(fragments, i + 1, TRUE,
                            Append(resp_vec, SubSeq(fragment, 2, n)))
            ELSE IF EndsWith(fragment, <<Quote>>) /\ looking
            THEN [panicked |-> FALSE,
                  resp_vec |-> Append(resp_vec, SubSeq(fragment, 1, n - 1))]
            ELSE IF looking
            THEN Reassemble(fragments, i + 1, looking, Append(resp_vec, fragment))
            ELSE Reassemble(fragments, i + 1, looking, resp_vec)

\* request_string after send_command.
request_string(response) ==
    LET r == Reassemble(Split(response, Space), 1, FALSE, <<>>)
    IN IF r.panicked THEN Returned("panic", 0, FALSE, <<>>)
       ELSE Returned("Ok", 0, FALSE, Join(r.resp_vec, Space))

\* LabelColor::from_str: the lower-cased text is matched with the names.
ParseLabelColor(t) ==
    LET found == {c \in LabelColors : ToLowercase(c) = ToLowercase(t)}
    IN IF found = {} THEN Returned("LabelColorParseError", 0, FALSE, t)
       ELSE Returned("Ok", 0, FALSE, CHOOSE c \in found : TRUE)

\* color() after send_command: the last token without its quotes is parsed.
DecodeColor(response) == ParseLabelColor(Remove(Last(Split(response, Space)), Quote))

\* `Ok(())` of the operations that set a parameter.
Unit(response) == Returned("Ok", 0, FALSE, <<>>)

\* ------------------------------------------------------- the mock console
\* A console that stores what is set and echoes it: `set <path> <ch> 0 <v>`
\* stores the text <v> and is answered `OK set <path> <ch> 0 <v>`,
\* `get <path> <ch> 0` is answered `OK get <path> <ch> 0 <stored text>`,
\* ssrecall_ex is answered OK; any other line is ignored.
StoreKeys == Paths \X {NatToText(ch) : ch \in Channels}

InitialStore ==
    [k \in StoreKeys |->
        IF k[1] = LevelPath THEN <<"0">>
        ELSE IF k[1] = OnPath THEN <<"1">>
        ELSE IF k[1] = ColorPath THEN <<Quote>> \o <<"P", "u", "r", "p", "l", "e">> \o <<Quote>>
        ELSE <<Quote, Quote>>]

ConsoleLine(st, line) ==
    LET tokens == Split(line, Space)
        n == Len(tokens)
        addressed == n >= 4 /\ <<tokens[2], tokens[3]>> \in StoreKeys /\ tokens[4] = <<"0">>
    IN IF n >= 5 /\ tokens[1] = <<"s", "e", "t">> /\ addressed
       THEN [store |-> [st EXCEPT ![<<tokens[2], tokens[3]>>] =
                                      Join(SubSeq(tokens, 5, n), Space)],
             out |-> <<"O", "K", Space>> \o line \o <<LF>>]
       ELSE IF n = 4 /\ tokens[1] = <<"g", "e", "t">> /\ addressed
       THEN [store |-> st,
             out |-> <<"O", "K", Space>> \o line \o <<Space>> \o st[<<tokens[2], tokens[3]>>] \o <<LF>>]
       ELSE IF n = 3 /\ tokens[1] = <<"s", "s", "r", "e", "c", "a", "l", "l", "_", "e", "x">>
       THEN [store |-> st, out |-> <<"O", "K", Space>> \o line \o <<LF>>]
       ELSE [store |-> st, out |-> <<>>]

\* The console takes the lines it received in order.
RECURSIVE ConsoleRun(_, _)
ConsoleRun(st, lines) ==
    IF lines = <<>> THEN [store |-> st, out |-> <<>>]
    ELSE LET first == ConsoleLine(st, Head(lines))
             rest == ConsoleRun(first.store, Tail(lines))
         IN [store |-> rest.store, out |-> first.out \o rest.out]

\* send_command of a single caller on a healthy Connection: `cmd.push('\n')`,
\* the write, the console's answer read by the reader task in one read, and
\* the classification of the first line that comes through the queue; with
\* no line forwarded recv() does not return.
Transmit(st, command) ==
    LET bytes == Append(command, LF)
        console == ConsoleRun(st, Front(Split(bytes, LF)))
        read == ReadOutcome(console.out)
    IN [store |-> console.store,
        wire |-> bytes,
        reply |-> IF read.forwarded = <<>>
                  THEN [kind |-> "pending", class |-> "none", text |-> <<>>]
                  ELSE ClassifyLine(Head(read.forwarded))]

NoReturn == Returned("none", 0, FALSE, <<>>)
NoRequest == [op |-> "none", channel |-> 0, int |-> 0, bool |-> FALSE, text |-> <<>>]

\* ------------------------------------------------------------ TFMixer::new
\* num_connections starts at InitialNumConnections and new() adds one for the
\* initial Connection (u8 arithmetic).
NewNumConnections == (InitialNumConnections + 1) % U8Modulus

Init ==
    /\ connection_limit = DefaultConnectionLimit
    /\ num_connections = NewNumConnections
    /\ connections = <<0>>
    /\ connsLock = NoCaller
    /\ numLock = NoCaller
    /\ nextId = 1
    /\ reader = (0 :> "running")
    /\ socket = (0 :> "open")
    /\ pending = (0 :> <<>>)
    /\ inbound = (0 :> <<>>)
    /\ queue = (0 :> <<>>)
    /\ unsolicited = 0
    /\ pc = [p \in Callers |-> "idle"]
    /\ conn = [p \in Callers |-> NoConn]
    /\ cmd = [p \in Callers |-> NoCmd]
    /\ result = [p \in Callers |-> NoResult]
    /\ calls = [p \in Callers |-> 0]
    /\ op = [p \in Callers |-> "none"]
    /\ fade = [p \in Callers |-> NoFade]
    /\ issued = [p \in Callers |-> <<>>]
    /\ reply = [p \in Callers |-> NoResult]
    /\ store = InitialStore
    /\ wire = <<>>
    /\ ret = NoReturn
    /\ request = NoRequest
    /\ stream = <<>>
    /\ sent = <<>>
    /\ framed = <<>>
    /\ forwarded = <<>>

\* ---------------------------------------------------- set_connection_limit
\* Limits a caller may configure (u8).
LimitInputs == {0, 1, MaxLimit}

\* `&mut self`: the borrow checker admits the call only while no operation
\* on the handle is in flight.
SetConnectionLimit(limit) ==
    /\ \A p \in Callers : pc[p] = "idle"
    /\ limit # connection_limit
    /\ connection_limit' = limit
    /\ UNCHANGED <<num_connections, connections, connsLock, numLock, nextId>>
    /\ UNCHANGED <<netVars, callVars>>
    /\ UNCHANGED wireVars

\* ------------------------------------------------------------------- fade
\* A faulty clamp: the argument is used as it is.
ClampNone(v) == v

\* i32::clamp(min_fader_val, max_fader_val)
Clamp(v) ==
    IF v < min_fader_val THEN min_fader_val
    ELSE IF v > max_fader_val THEN max_fader_val ELSE v

\* duration_ms / 50 on u64.
NumSteps(duration_ms) == duration_ms \div FadeStepMs

\* `num_steps as i32` keeps the low 32 bits, read as two's complement: a
\* step count up to I32Max keeps its value.  Larger counts (durations of
\* more than 3000 years) are outside the integers of the model.
AsI32(n) == IF n <= I32Max THEN n ELSE n - I32Max - I32Max - 2

\* A faulty division: the quotient is rounded toward negative infinity.
TruncDivFloor(a, b) == a \div b

\* i32 division truncates toward zero; the divisor is not zero.
TruncDiv(a, b) ==
    LET q == Abs(a) \div Abs(b)
    IN IF (a < 0) # (b < 0) THEN -q ELSE q

\* Rust's integer division panics on a zero divisor.
DivPanics(divisor) == divisor = 0

\* A faulty terminal value: the bottom of the range is sent as it is.
FinalValueUnmapped(final_value) == final_value

\* The value of the terminal command.
FinalValue(final_value) ==
    IF final_value = min_fader_val THEN neg_inf_val ELSE final_value

\* --------------------------------------------------------- send_command
\* A command line; by, call and n identify the send_command that wrote it.
Command(p, call, n, ch, val) == [by |-> p, call |-> call, n |-> n, ch |-> ch, val |-> val]

\* send_command is entered: its first await is the lock of the idle list.
Send(p, command) ==
    /\ pc' = [pc EXCEPT ![p] = "lock_conns"]
    /\ cmd' = [cmd EXCEPT ![p] = command]

\* fade's terminal set_fader_level.
FinalCommand(p, f) ==
    LET v == FinalValue(f.final_value)
    IN /\ fade' = [fade EXCEPT ![p] = [f EXCEPT !.final_value = v, !.final = TRUE]]
       /\ Send(p, Command(p, calls[p], f.i, f.channel, v))

\* send_command returns r to the public operation that called it; the
\* operation runs on to its next await point or to its end.
Finish(p, r) ==
    IF op[p] = "fade" /\ r.kind = "Ok" /\ ~fade[p].final
    THEN LET f == [fade[p] EXCEPT !.current_value = @ + fade[p].step_delta,
                                  !.i = @ + 1]
         IN /\ UNCHANGED result
            /\ IF f.i < f.num_steps
               THEN /\ fade' = [fade EXCEPT ![p] = f]
                    /\ pc' = [pc EXCEPT ![p] = "tick"]
                    /\ UNCHANGED cmd
               ELSE FinalCommand(p, f)
    ELSE /\ pc' = [pc EXCEPT ![p] = "idle"]
         /\ result' = [result EXCEPT ![p] = r]
         /\ UNCHANGED <<fade, cmd>>

\* A faulty pop: the last element is read without being removed.
PopConnPeek(conns) == [taken |-> Last(conns), rest |-> conns]

\* The idle list is a Vec used as a stack: pop takes its last element.
PopConn(conns) == [taken |-> Last(conns), rest |-> Front(conns)]

\* A faulty push: the Connection is not put back.
PushConnLeak(conns, c) == conns

\* `conns.push(conn)`
PushConn(conns, c) == Append(conns, c)

\* A faulty test: the limit is not consulted.
BelowLimitUnchecked(n, limit) == TRUE

\* `if *num_conns < self.connection_limit`
BelowLimit(n, limit) == n < limit

\* The classification of a received line.
Classify(line) ==
    IF line.kind = "ERROR" THEN [kind |-> "RCPError", line |-> line]
    ELSE IF line.kind = "OK" THEN [kind |-> "Ok", line |-> line]
    ELSE [kind |-> "RCPError", line |-> line]

\* `None => Err(Error::RCPError("closed channel from reader task"))`
ClosedChannel == [kind |-> "RCPError", line |-> [kind |-> "closed", re |-> NoCmd]]
\* `?` on an io::Error: Error::NetworkError.
NetworkError == [kind |-> "NetworkError", line |-> NoLine]
Panicked == [kind |-> "panic", line |-> NoLine]
Abandoned == [kind |-> "abandoned", line |-> NoLine]

NetKeep == UNCHANGED <<reader, socket, pending, inbound, queue, unsolicited>>

\* The Connection c goes out of scope: the object no longer exists.
DropConnection(c) ==
    /\ reader' = Drop(reader, c)
    /\ socket' = Drop(socket, c)
    /\ pending' = Drop(pending, c)
    /\ inbound' = Drop(inbound, c)
    /\ queue' = Drop(queue, c)
    /\ UNCHANGED unsolicited

\* `self.connections.lock().await` then `conns.pop()`: an idle Connection is
\* taken and the lock released at the end of the block; with none idle the
\* caller goes on, holding the lock, to lock num_connections.
LockConnections(p) ==
    /\ pc[p] = "lock_conns"
    /\ connsLock = NoCaller
    /\ IF connections # <<>>
       THEN /\ conn' = [conn EXCEPT ![p] = PopConn(connections).taken]
            /\ connections' = PopConn(connections).rest
            /\ pc' = [pc EXCEPT ![p] = "write"]
            /\ UNCHANGED connsLock
       ELSE /\ connsLock' = p
            /\ pc' = [pc EXCEPT ![p] = "lock_num"]
            /\ UNCHANGED <<conn, connections>>
    /\ UNCHANGED <<connection_limit, num_connections, numLock, nextId>>
    /\ UNCHANGED <<cmd, result, calls, op, fade, issued, reply>>
    /\ NetKeep
    /\ UNCHANGED wireVars

\* `self.num_connections.lock().await`: below the limit the count is
\* incremented and a Connection is about to be created, both locks held;
\* otherwise both locks are dropped and the caller sleeps.
LockNumConnections(p) ==
    /\ pc[p] = "lock_num"
    /\ numLock = NoCaller
    /\ IF BelowLimit(num_connections, connection_limit)
       THEN /\ num_connections' = (num_connections + 1) % U8Modulus
            /\ numLock' = p
            /\ pc' = [pc EXCEPT ![p] = "connect"]
            /\ UNCHANGED connsLock
       ELSE /\ connsLock' = NoCaller
            /\ pc' = [pc EXCEPT ![p] = "sleep"]
            /\ UNCHANGED <<num_connections, numLock>>
    /\ UNCHANGED <<connection_limit, connections, nextId>>
    /\ UNCHANGED <<conn, cmd, result, calls, op, fade, issued, reply>>
    /\ NetKeep
    /\ UNCHANGED wireVars

\* new_connection succeeds: the stream is split, the reader task spawned.
NewConnectionOk(p) ==
    /\ pc[p] = "connect"
    /\ reader' = Put(reader, nextId, "running")
    /\ socket' = Put(socket, nextId, "open")
    /\ pending' = Put(pending, nextId, <<>>)
    /\ inbound' = Put(inbound, nextId, <<>>)
    /\ queue' = Put(queue, nextId, <<>>)
    /\ conn' = [conn EXCEPT ![p] = nextId]
    /\ nextId' = nextId + 1
    /\ connsLock' = NoCaller
    /\ numLock' = NoCaller
    /\ pc' = [pc EXCEPT ![p] = "write"]
    /\ UNCHANGED <<connection_limit, num_connections, connections, unsolicited>>
    /\ UNCHANGED <<cmd, result, calls, op, fade, issued, reply>>
    /\ UNCHANGED wireVars

\* new_connection fails: `?` leaves send_command, dropping both guards.
NewConnectionFail(p) ==
    /\ pc[p] = "connect"
    /\ connsLock' = NoCaller
    /\ numLock' = NoCaller
    /\ Finish(p, NetworkError)
    /\ UNCHANGED <<connection_limit, num_connections, connections, nextId>>
    /\ UNCHANGED <<conn, calls, op, issued, reply>>
    /\ NetKeep
    /\ UNCHANGED wireVars

\* The wait loop: after the sleep the list is locked and popped; when it is
\* still empty the lock is dropped and the caller sleeps again.
WaitForConnection(p) ==
    /\ pc[p] = "sleep"
    /\ connsLock = NoCaller
    /\ IF connections # <<>>
       THEN /\ conn' = [conn EXCEPT ![p] = PopConn(connections).taken]
            /\ connections' = PopConn(connections).rest
            /\ pc' = [pc EXCEPT ![p] = "write"]
       ELSE UNCHANGED <<conn, connections, pc>>
    /\ UNCHANGED <<connection_limit, num_connections, connsLock, numLock, nextId>>
    /\ UNCHANGED <<cmd, result, calls, op, fade, issued, reply>>
    /\ NetKeep
    /\ UNCHANGED wireVars

\* write_all succeeds: the line reaches the console if the stream is up.
WriteOk(p) ==
    /\ pc[p] = "write"
    /\ pending' = [pending EXCEPT ![conn[p]] =
                      IF socket[conn[p]] = "open" THEN Append(@, cmd[p]) ELSE @]
    /\ issued' = [issued EXCEPT ![p] = Append(@, cmd[p].val)]
    /\ pc' = [pc EXCEPT ![p] = "recv"]
    /\ UNCHANGED <<reader, socket, inbound, queue, unsolicited>>
    /\ UNCHANGED poolVars
    /\ UNCHANGED <<conn, cmd, result, calls, op, fade, reply>>
    /\ UNCHANGED wireVars

\* write_all fails: `?` leaves send_command and the Connection is dropped.
WriteFail(p) ==
    /\ pc[p] = "write"
    /\ DropConnection(conn[p])
    /\ conn' = [conn EXCEPT ![p] = NoConn]
    /\ Finish(p, NetworkError)
    /\ UNCHANGED poolVars
    /\ UNCHANGED <<calls, op, issued, reply>>
    /\ UNCHANGED wireVars

\* recv() yields the next queued line, or None once the reader task has
\* ended and the queue is drained.
Recv(p) ==
    /\ pc[p] = "recv"
    /\ IF queue[conn[p]] # <<>>
       THEN /\ reply' = [reply EXCEPT ![p] = Classify(Head(queue[conn[p]]))]
            /\ queue' = [queue EXCEPT ![conn[p]] = Tail(@)]
       ELSE /\ reader[conn[p]] = "ended"
            /\ reply' = [reply EXCEPT ![p] = ClosedChannel]
            /\ UNCHANGED queue
    /\ pc' = [pc EXCEPT ![p] = "return"]
    /\ UNCHANGED <<reader, socket, pending, inbound, unsolicited>>
    /\ UNCHANGED poolVars
    /\ UNCHANGED <<conn, cmd, result, calls, op, fade, issued>>
    /\ UNCHANGED wireVars

\* "Add the connection we used back into the pool", then return result.
ReturnConnection(p) ==
    /\ pc[p] = "return"
    /\ connsLock = NoCaller
    /\ connections' = PushConn(connections, conn[p])
    /\ conn' = [conn EXCEPT ![p] = NoConn]
    /\ reply' = [reply EXCEPT ![p] = NoResult]
    /\ Finish(p, reply[p])
    /\ UNCHANGED <<connection_limit, num_connections, connsLock, numLock, nextId>>
    /\ UNCHANGED <<calls, op, issued>>
    /\ NetKeep
    /\ UNCHANGED wireVars

\* The await points of an operation, where its future can be dropped.
AwaitPoints == {"tick", "lock_conns", "lock_num", "sleep", "write", "recv", "return"}

\* A faulty cancellation: the Connection of the dropped future goes back
\* to the idle list with its command unanswered.
AbandonReturning(p) ==
    /\ pc[p] \in AwaitPoints
    /\ connections' = IF conn[p] # NoConn THEN Append(connections, conn[p])
                       ELSE connections
    /\ NetKeep
    /\ conn' = [conn EXCEPT ![p] = NoConn]
    /\ connsLock' = IF connsLock = p THEN NoCaller ELSE connsLock
    /\ pc' = [pc EXCEPT ![p] = "idle"]
    /\ result' = [result EXCEPT ![p] = Abandoned]
    /\ reply' = [reply EXCEPT ![p] = NoResult]
    /\ UNCHANGED <<connection_limit, num_connections, numLock, nextId>>
    /\ UNCHANGED <<cmd, calls, op, fade, issued>>
    /\ UNCHANGED wireVars

\* The caller abandons the in-flight operation: the future is dropped with
\* whatever it owns (a lock guard, the Connection).
Abandon(p) ==
    /\ pc[p] \in AwaitPoints
    /\ IF conn[p] # NoConn THEN DropConnection(conn[p]) ELSE NetKeep
    /\ conn' = [conn EXCEPT ![p] = NoConn]
    /\ connsLock' = IF connsLock = p THEN NoCaller ELSE connsLock
    /\ pc' = [pc EXCEPT ![p] = "idle"]
    /\ result' = [result EXCEPT ![p] = Abandoned]
    /\ reply' = [reply EXCEPT ![p] = NoResult]
    /\ UNCHANGED <<connection_limit, num_connections, connections, numLock, nextId>>
    /\ UNCHANGED <<cmd, calls, op, fade, issued>>
    /\ UNCHANGED wireVars

\* ------------------------------------------------------ public operations
InitialInputs == {max_fader_val}
FinalInputs == {min_fader_val - 1}
DurationInputs == {FadeStepMs - 1, FadeStepMs * MaxSteps}

\* A public operation made of one send_command (fader_level, set_muted,
\* recall_scene, ...): the command is formatted and send_command entered.
Operation(p, ch) ==
    /\ pc[p] = "idle"
    /\ calls[p] < MaxCalls
    /\ calls' = [calls EXCEPT ![p] = @ + 1]
    /\ op' = [op EXCEPT ![p] = "command"]
    /\ issued' = [issued EXCEPT ![p] = <<>>]
    /\ fade' = [fade EXCEPT ![p] = NoFade]
    /\ result' = [result EXCEPT ![p] = NoResult]
    /\ Send(p, Command(p, calls[p] + 1, 0, ch, 0))
    /\ UNCHANGED <<conn, reply>>
    /\ UNCHANGED <<poolVars, netVars>>
    /\ UNCHANGED wireVars

\* fade up to its first await: the clamps, the step count and the division,
\* which panics on a zero divisor; with no step to run the terminal command
\* is sent at once.
Fade(p, ch, initial, final, duration_ms) ==
    /\ pc[p] = "idle"
    /\ calls[p] < MaxCalls
    /\ calls' = [calls EXCEPT ![p] = @ + 1]
    /\ op' = [op EXCEPT ![p] = "fade"]
    /\ issued' = [issued EXCEPT ![p] = <<>>]
    /\ LET init == Clamp(initial)
           fin == Clamp(final)
           steps == NumSteps(duration_ms)
           divisor == AsI32(steps)
           args == [NoFade EXCEPT !.channel = ch, !.duration_ms = duration_ms,
                                  !.arg_initial = initial, !.arg_final = final,
                                  !.initial_value = init, !.final_value = fin,
                                  !.num_steps = steps]
       IN IF DivPanics(divisor)
          THEN /\ fade' = [fade EXCEPT ![p] = args]
               /\ result' = [result EXCEPT ![p] = Panicked]
               /\ UNCHANGED <<pc, cmd>>
          ELSE LET f == [args EXCEPT !.step_delta = TruncDiv(fin - init, divisor),
                                     !.current_value = init]
               IN /\ result' = [result EXCEPT ![p] = NoResult]
                  /\ IF steps > 0
                     THEN /\ fade' = [fade EXCEPT ![p] = f]
                          /\ pc' = [pc EXCEPT ![p] = "tick"]
                          /\ UNCHANGED cmd
                     ELSE /\ fade' = [fade EXCEPT ![p] =
                                         [f EXCEPT !.final_value = FinalValue(fin),
                                                   !.final = TRUE]]
                          /\ Send(p, Command(p, calls[p] + 1, 0, ch, FinalValue(fin)))
    /\ UNCHANGED <<conn, reply>>
    /\ UNCHANGED <<poolVars, netVars>>
    /\ UNCHANGED wireVars

\* `interval.tick().await` completes: set_fader_level(channel, current_value).
Tick(p) ==
    /\ pc[p] = "tick"
    /\ Send(p, Command(p, calls[p], fade[p].i, fade[p].channel, fade[p].current_value))
    /\ UNCHANGED <<conn, result, calls, op, fade, issued, reply>>
    /\ UNCHANGED <<poolVars, netVars>>
    /\ UNCHANGED wireVars

\* ------------------------------------------------------------ reader task
\* One `reader.read(..).await` and the handling of what it returned: an
\* error ends the task (its sender is dropped, closing the queue); a line is
\* forwarded when it starts with OK or ERROR and discarded otherwise; a read
\* of zero bytes at end-of-stream matches Ok(_) and the loop goes on.
ReaderRead(c) ==
    /\ reader[c] = "running"
    /\ IF socket[c] = "error"
       THEN /\ reader' = [reader EXCEPT ![c] = "ended"]
            /\ UNCHANGED <<inbound, queue>>
       ELSE IF inbound[c] # <<>>
       THEN /\ inbound' = [inbound EXCEPT ![c] = Tail(@)]
            /\ IF Head(inbound[c]).kind \in {"OK", "ERROR"}
               THEN /\ Len(queue[c]) < QueueCapacity
                    /\ queue' = [queue EXCEPT ![c] = Append(@, Head(inbound[c]))]
               ELSE UNCHANGED queue
            /\ UNCHANGED reader
       ELSE /\ socket[c] = "eof"
            /\ UNCHANGED <<reader, inbound, queue>>
    /\ UNCHANGED <<socket, pending, unsolicited>>
    /\ UNCHANGED <<poolVars, callVars>>
    /\ UNCHANGED wireVars

\* ---------------------------------------------------------------- console
\* The console answers the oldest command it has received on c.
ConsoleReply(c, kind) ==
    /\ socket[c] = "open"
    /\ pending[c] # <<>>
    /\ inbound' = [inbound EXCEPT ![c] = Append(@, [kind |-> kind, re |-> Head(pending[c])])]
    /\ pending' = [pending EXCEPT ![c] = Tail(@)]
    /\ UNCHANGED <<reader, socket, queue, unsolicited>>
    /\ UNCHANGED <<poolVars, callVars>>
    /\ UNCHANGED wireVars

\* The console emits an unsolicited line (telemetry, a notification).
ConsoleNotify(c) ==
    /\ socket[c] = "open"
    /\ unsolicited < MaxUnsolicited
    /\ unsolicited' = unsolicited + 1
    /\ inbound' = [inbound EXCEPT ![c] = Append(@, [kind |-> "NOTIFY", re |-> NoCmd])]
    /\ UNCHANGED <<reader, socket, pending, queue>>
    /\ UNCHANGED <<poolVars, callVars>>
    /\ UNCHANGED wireVars

\* The console closes the stream: after the lines already sent the reader's
\* reads return zero bytes.
ConsoleClose(c) ==
    /\ socket[c] = "open"
    /\ socket' = [socket EXCEPT ![c] = "eof"]
    /\ pending' = [pending EXCEPT ![c] = <<>>]
    /\ UNCHANGED <<reader, inbound, queue, unsolicited>>
    /\ UNCHANGED <<poolVars, callVars>>
    /\ UNCHANGED wireVars

\* The stream breaks: the reader's next read returns an I/O error.
ReadError(c) ==
    /\ socket[c] # "error"
    /\ socket' = [socket EXCEPT ![c] = "error"]
    /\ pending' = [pending EXCEPT ![c] = <<>>]
    /\ inbound' = [inbound EXCEPT ![c] = <<>>]
    /\ UNCHANGED <<reader, queue, unsolicited>>
    /\ UNCHANGED <<poolVars, callVars>>
    /\ UNCHANGED wireVars

\* ------------------------------------------- public operations, on the wire
\* Arguments of the operations.
LevelInputs == {min_fader_val, -1000, -1, 0, 7, max_fader_val}
LabelInputs ==
    {<<>>, <<"s", "o", "l", "o">>, <<"C", "H", "A", "N", Space, "2">>,
     <<Space, "a">>, <<"a", Space, Space, "b", Space>>, <<"a", LF, "b">>}
ColorInputs == {<<"P", "u", "r", "p", "l", "e">>, <<"S", "k", "y", "B", "l", "u", "e">>}
SceneNumbers == {1, 12}

\* The caller of the operations, and how many it makes in a row.
WireCaller == 1
MaxOps == 2

\* What each operation makes of the success line of its send_command.
Decode(name, response) ==
    CASE name = "fader_level" -> request_int(response)
      [] name = "muted" -> request_bool(response)
      [] name = "color" -> DecodeColor(response)
      [] name = "label" -> request_string(response)
      [] OTHER -> Unit(response)

\* A public operation of a single caller, from the format! of its command to
\* the value it returns: `?` passes the error of send_command on, a success
\* line is decoded.
Call(name, channel, int, bool, text, command) ==
    LET x == Transmit(store, command)
    IN /\ calls' = [calls EXCEPT ![WireCaller] = @ + 1]
       /\ store' = x.store
       /\ wire' = x.wire
       /\ request' = [op |-> name, channel |-> channel,
                       int |-> int, bool |-> bool, text |-> text]
       /\ ret' = IF x.reply.kind = "Ok" THEN Decode(name, x.reply.text)
                 ELSE Returned(x.reply.kind, 0, FALSE, x.reply.text)
       /\ UNCHANGED <<pc, conn, cmd, result, op, fade, issued, reply>>
       /\ UNCHANGED <<poolVars, netVars, frameVars>>

fader_level(channel) ==
    /\ calls[WireCaller] < MaxOps
    /\ Call("fader_level", channel, 0, FALSE, <<>>,
            FaderLevelCommand(channel))
set_fader_level(channel, value) ==
    /\ calls[WireCaller] < MaxOps
    /\ Call("set_fader_level", channel, value, FALSE, <<>>,
            SetFaderLevelCommand(channel, value))
muted(channel) ==
    /\ calls[WireCaller] < MaxOps
    /\ Call("muted", channel, 0, FALSE, <<>>,
            MutedCommand(channel))
set_muted(channel, is_muted) ==
    /\ calls[WireCaller] < MaxOps
    /\ Call("set_muted", channel, 0, is_muted, <<>>,
            SetMutedCommand(channel, is_muted))
color(channel) ==
    /\ calls[WireCaller] < MaxOps
    /\ Call("color", channel, 0, FALSE, <<>>,
            ColorCommand(channel))
set_color(channel, label_color) ==
    /\ calls[WireCaller] < MaxOps
    /\ Call("set_color", channel, 0, FALSE, label_color,
            SetColorCommand(channel, label_color))
label(channel) ==
    /\ calls[WireCaller] < MaxOps
    /\ Call("label", channel, 0, FALSE, <<>>,
            LabelCommand(channel))
set_label(channel, label_text) ==
    /\ calls[WireCaller] < MaxOps
    /\ Call("set_label", channel, 0, FALSE, label_text,
            SetLabelCommand(channel, label_text))
recall_scene(scene_list, scene_number) ==
    /\ calls[WireCaller] < MaxOps
    /\ Call("recall_scene", 0, scene_number, FALSE, scene_list,
            RecallSceneCommand(scene_list, scene_number))

\* ------------------------------------- the initial Connection, byte by byte
\* Lines a console can send: replies, a notification, an empty line, a line
\* with a byte that is not UTF-8.
MaxLines == 2
FrameLines ==
    {<<"O", "K", Space, "7">>, <<"E", "R", "R", "O", "R", Space, "O", "K">>, <<"N", "O", "T", "I", "F", "Y">>,
     <<>>, <<"O", "K", NotUtf8>>}

LinesSent == Cardinality({i \in DOMAIN sent : sent[i] = LF})

\* The console sends a line on the initial Connection.
ConsoleSend(line) ==
    /\ socket[0] = "open"
    /\ LinesSent < MaxLines
    /\ stream' = stream \o line \o <<LF>>
    /\ sent' = sent \o line \o <<LF>>
    /\ UNCHANGED <<framed, forwarded>>
    /\ UNCHANGED <<poolVars, netVars, callVars, codecVars>>

\* One read of the reader task returns the next n bytes of the stream, at
\* most the size of the buffer, and the loop body runs over them; send()
\* waits while the queue is full.
ReaderReadBytes(n) ==
    /\ reader[0] = "running"
    /\ n \in 1..Len(stream)
    /\ n <= buffer_size
    /\ LET read == ReadOutcome(SubSeq(stream, 1, n))
       IN /\ Len(forwarded) + Len(read.forwarded) <= QueueCapacity
          /\ framed' = framed \o read.framed
          /\ forwarded' = forwarded \o read.forwarded
          /\ reader' = [reader EXCEPT ![0] = IF read.panicked THEN "ended" ELSE @]
    /\ stream' = SubSeq(stream, n + 1, Len(stream))
    /\ UNCHANGED sent
    /\ UNCHANGED <<socket, pending, inbound, queue, unsolicited>>
    /\ UNCHANGED <<poolVars, callVars, codecVars>>

\* ---------------------------------------------------------- specification
\* Every identity a Connection can have: the count only grows, so at most
\* MaxLimit - NewNumConnections Connections follow the initial one.
ConnIds == 0..(MaxLimit - NewNumConnections)

\* The steps of an operation in progress, from one await point to the next.
SendStep(p) ==
    \/ Tick(p)
    \/ LockConnections(p)
    \/ LockNumConnections(p)
    \/ NewConnectionOk(p)
    \/ WaitForConnection(p)
    \/ WriteOk(p)
    \/ Recv(p)
    \/ ReturnConnection(p)

CallerStep(p) ==
    \/ \E ch \in Channels : Operation(p, ch)
    \/ \E ch \in Channels, iv \in InitialInputs, fv \in FinalInputs, d \in DurationInputs :
          Fade(p, ch, iv, fv, d)
    \/ SendStep(p)

CallerFailure(p) ==
    \/ NewConnectionFail(p)
    \/ WriteFail(p)
    \/ Abandon(p)

NetStep(c) ==
    \/ ReaderRead(c)
    \/ \E kind \in {"OK", "ERROR"} : ConsoleReply(c, kind)
    \/ ConsoleNotify(c)

NetFailure(c) ==
    \/ ConsoleClose(c)
    \/ ReadError(c)

Next ==
    \/ \E limit \in LimitInputs : SetConnectionLimit(limit)
    \/ \E p \in Callers : CallerStep(p) \/ CallerFailure(p)
    \/ \E c \in Existing : NetStep(c) \/ NetFailure(c)

Spec == Init /\ [][Next]_vars

\* The runtime runs every task that stays ready: a caller's operation and a
\* reader task take their next step, and the console answers what it received.
Fairness ==
    /\ \A p \in Callers : WF_vars(SendStep(p))
    /\ \A c \in ConnIds : WF_vars(c \in Existing /\ NetStep(c))

\* Spec under fair scheduling, I/O failures and abandoned calls included.
FairSpec == Spec /\ Fairness

\* No I/O failure and no abandoned call: the console answers every command.
LiveNext ==
    \/ \E limit \in LimitInputs : SetConnectionLimit(limit)
    \/ \E p \in Callers : CallerStep(p)
    \/ \E c \in Existing : NetStep(c)

LiveSpec == Init /\ [][LiveNext]_vars /\ Fairness

\* One caller runs fades on a handle nobody else uses, the stream stays up
\* and the console answers every command, with OK or with ERROR.
FadeCaller == 1
FadeInitialInputs == {max_fader_val, max_fader_val + 1000, -4000}
FadeFinalInputs ==
    {-4000, min_fader_val, min_fader_val - 1, max_fader_val - 1, max_fader_val}
FadeDurationInputs == {FadeStepMs, 2 * FadeStepMs + 20, 1000, 3000}

FadeNext ==
    \/ \E iv \in FadeInitialInputs, fv \in FadeFinalInputs, d \in FadeDurationInputs :
          Fade(FadeCaller, 1, iv, fv, d)
    \/ Tick(FadeCaller)
    \/ LockConnections(FadeCaller)
    \/ WriteOk(FadeCaller)
    \/ Recv(FadeCaller)
    \/ ReturnConnection(FadeCaller)
    \/ \E c \in Existing : ReaderRead(c)
    \/ \E c \in Existing, kind \in {"OK", "ERROR"} : ConsoleReply(c, kind)

FadeSpec == Init /\ [][FadeNext]_vars

\* One caller uses the handle, one operation at a time, against the mock
\* console; every reply reaches the reader task whole.
CodecNext ==
    \/ \E ch \in Channels : fader_level(ch)
    \/ \E ch \in Channels, v \in LevelInputs : set_fader_level(ch, v)
    \/ \E ch \in Channels : muted(ch)
    \/ \E ch \in Channels, m \in BOOLEAN : set_muted(ch, m)
    \/ \E ch \in Channels : color(ch)
    \/ \E ch \in Channels, c \in ColorInputs : set_color(ch, c)
    \/ \E ch \in Channels : label(ch)
    \/ \E ch \in Channels, t \in LabelInputs : set_label(ch, t)
    \/ \E l \in SceneLists, n \in SceneNumbers : recall_scene(l, n)

CodecSpec == Init /\ [][CodecNext]_vars

\* The console sends lines on the initial Connection and the reader task
\* reads them in pieces of any size.
FrameNext ==
    \/ \E line \in FrameLines : ConsoleSend(line)
    \/ \E n \in 1..buffer_size : ReaderReadBytes(n)

FrameSpec == Init /\ [][FrameNext]_vars

\* ------------------------------------------------------------------ claims
\* Callers between the write of a command and the return of recv().
AwaitingReply(c) == {p \in Callers : conn[p] = c /\ pc[p] = "recv"}
\* OK/ERROR lines the console has sent that the reader has not read yet.
RepliesInFlight(c) ==
    Cardinality({i \in DOMAIN inbound[c] : inbound[c][i].kind \in {"OK", "ERROR"}})
\* Commands written on c whose reply has not been received by a caller.
Outstanding(c) == Len(pending[c]) + RepliesInFlight(c) + Len(queue[c])

\* C1 (as stated): in every reachable state the number of open Connections,
\* idle plus checked out, is at most the configured connection_limit.
C1_OpenWithinLimit == OpenCount <= connection_limit

\* C1 (amended): a Connection is opened only below the limit: every step that
\* raises the number of open Connections leaves at most connection_limit open.
C1_OpenedOnlyBelowLimit ==
    [][OpenCount' > OpenCount => OpenCount' <= connection_limit']_vars

C1_Witness ==
    /\ OpenCount = 2
    /\ connection_limit = MaxLimit
    /\ \A p \in Callers : conn[p] # NoConn

\* C2: num_connections equals the number of Connections that exist; it is 1
\* right after construction and follows every creation and destruction.
C2_CounterIsOpenCount == num_connections = OpenCount

\* C3: every Connection is in exactly one place: once in the idle list, or
\* held by exactly one caller.
C3_IdleXorCheckedOut ==
    /\ \A i, j \in DOMAIN connections : i # j => connections[i] # connections[j]
    /\ \A p \in Callers : conn[p] # NoConn => conn[p] \notin Range(connections)
    /\ \A p, q \in Callers : (p # q /\ conn[p] # NoConn) => conn[p] # conn[q]
    /\ Existing = Range(connections) \cup Held

C3_Witness ==
    \E p, q \in Callers :
        /\ p # q /\ pc[p] = "recv" /\ pc[q] = "return"
        /\ conn[p] \in Existing /\ conn[q] \in Existing

\* C4: at most one command is outstanding on a Connection, and a caller about
\* to write holds a Connection with none outstanding; while the initial
\* Connection is the only one (connection_limit 1), at most one caller is
\* between its write and its reply.
C4_OneOutstanding ==
    /\ \A c \in Existing : Outstanding(c) <= 1 /\ Cardinality(AwaitingReply(c)) <= 1
    /\ \A p \in Callers : pc[p] = "write" => Outstanding(conn[p]) = 0
    /\ nextId = 1 => Cardinality({p \in Callers : pc[p] = "recv"}) <= 1

C4_Witness ==
    \E p, q \in Callers :
        /\ p # q /\ op[p] = "fade" /\ op[q] = "fade"
        /\ fade[p].channel # fade[q].channel
        /\ connection_limit = DefaultConnectionLimit /\ nextId = 1
        /\ pc[p] = "recv" /\ Outstanding(conn[p]) = 1
        /\ pc[q] = "sleep" /\ fade[q].i > 0

\* C5: a Connection whose reader task has ended during a command (recv
\* reported the queue closed) is not pushed back onto the idle list.
C5_BrokenNeverReturned ==
    [][\A p \in Callers :
          (pc[p] = "return" /\ reply[p] = ClosedChannel /\ pc'[p] # "return")
             => conn[p] \notin Range(connections')]_vars

\* C6: a caller awaiting a reply on a stream the console has closed
\* eventually leaves recv (with an error).
C6_EofEndsRecv ==
    \A p \in Callers :
        (pc[p] = "recv" /\ socket[conn[p]] = "eof") ~> (pc[p] # "recv")

\* C7: whenever a send_command gives up the Connection it held, the
\* Connection is back in the idle list, or destroyed with the open count
\* decremented.
C7_ReleasedOrSlotFreed ==
    [][\A p \in Callers :
          (conn[p] # NoConn /\ conn'[p] = NoConn)
             => \/ conn[p] \in Range(connections')
                \/ /\ conn[p] \notin Existing'
                   /\ num_connections' = num_connections - 1]_vars

\* C8: when the creation of a Connection fails, the increment of the open
\* count is undone.
C8_FailedCreateUndone ==
    [][\A p \in Callers :
          (pc[p] = "connect" /\ pc'[p] # "connect" /\ conn'[p] = NoConn)
             => num_connections' = num_connections - 1]_vars

C10_ShortFadeCompletes ==
    \A p \in Callers :
        (op[p] = "fade" /\ fade[p].duration_ms < FadeStepMs /\ pc[p] = "idle")
           => /\ result[p].kind # "panic"
              /\ result[p].kind = "Ok" =>
                    issued[p] = <<FinalValue(Clamp(fade[p].arg_final))>>

\* C11: a fade with steps = duration_ms / 50 >= 1 whose commands all succeed
\* has issued exactly steps + 1 commands: the j-th (j = 0 .. steps - 1) sets
\* init + j * delta, where init and fin are the arguments clamped to
\* [-13800, 1000] and delta is (fin - init) / steps truncated toward zero.
C11_FadeSequence ==
    \A p \in Callers :
        (op[p] = "fade" /\ pc[p] = "idle" /\ result[p].kind = "Ok"
            /\ fade[p].duration_ms \div FadeStepMs >= 1)
           => LET f == fade[p]
                  steps == f.duration_ms \div FadeStepMs
                  init == IF f.arg_initial < -13800 THEN -13800
                          ELSE IF f.arg_initial > 1000 THEN 1000 ELSE f.arg_initial
                  fin == IF f.arg_final < -13800 THEN -13800
                         ELSE IF f.arg_final > 1000 THEN 1000 ELSE f.arg_final
                  delta == f.step_delta
              IN /\ Abs(delta) * steps <= Abs(fin - init)
                 /\ Abs(fin - init) < (Abs(delta) + 1) * steps
                 /\ delta # 0 => (delta < 0) = (fin < init)
                 /\ Len(issued[p]) = steps + 1
                 /\ \A j \in 0..(steps - 1) : issued[p][j + 1] = init + j * delta

C11_Witness ==
    \E p \in Callers :
        /\ op[p] = "fade" /\ pc[p] = "idle" /\ result[p].kind = "Ok"
        /\ fade[p].arg_initial = 1000 /\ fade[p].arg_final = -4000
        /\ fade[p].duration_ms = 3000
        /\ Len(issued[p]) = 61 /\ issued[p][2] = 917 /\ issued[p][61] = -4000

\* C12: the terminal command of a fade carries -32768 exactly when the
\* clamped final value is -13800, that is for every argument <= -13800;
\* otherwise it carries the clamped final value.
C12_FinalSentinel ==
    \A p \in Callers :
        (op[p] = "fade" /\ fade[p].final /\ Len(issued[p]) = fade[p].num_steps + 1)
           => LET a == fade[p].arg_final
                  v == Last(issued[p])
              IN /\ (v = -32768) = (a <= -13800)
                 /\ a > -13800 => v = (IF a > 1000 THEN 1000 ELSE a)

C12_Witness ==
    \E p \in Callers :
        /\ op[p] = "fade" /\ pc[p] = "idle" /\ result[p].kind = "Ok"
        /\ fade[p].arg_initial = 1000 /\ fade[p].arg_final = -13800
        /\ fade[p].duration_ms = 1000
        /\ Len(issued[p]) = 21 /\ Last(issued[p]) = -32768

\* C13: the closing of the reader's queue while a caller awaits a reply is
\* reported to the caller as NetworkError, and so is a failed write.
C13_TransportFailureIsNetworkError ==
    [][\A p \in Callers :
          /\ (pc[p] = "recv" /\ pc'[p] = "return" /\ queue[conn[p]] = <<>>)
                => reply'[p].kind = "NetworkError"
          /\ (pc[p] = "write" /\ pc'[p] = "idle" /\ result'[p] # Abandoned)
                => result'[p].kind = "NetworkError"]_vars

\* C14: muted and set_muted use one polarity: against the console that
\* echoes what was set, set_muted(ch, m) followed by muted(ch) returns m.
C14_MutedRoundTrip ==
    [][(request.op = "set_muted" /\ ret.kind = "Ok"
          /\ request'.op = "muted" /\ request'.channel = request.channel)
         => (ret'.kind = "Ok" /\ ret'.bool = request.bool)]_vars

\* C15: for every channel and every v in [-13800, 1000], set_fader_level(ch, v)
\* followed by fader_level(ch) returns v against the console that stores the
\* value and echoes it.
C15_FaderLevelRoundTrip ==
    [][(request.op = "set_fader_level" /\ ret.kind = "Ok"
          /\ request.int >= -13800 /\ request.int <= 1000
          /\ request'.op = "fader_level" /\ request'.channel = request.channel)
         => (ret'.kind = "Ok" /\ ret'.int = request.int)]_vars

C15_Witness ==
    /\ request.op = "fader_level" /\ request.channel = 2
    /\ store[<<LevelPath, <<"2">>>>] = <<"-", "1", "3", "8", "0", "0">>
    /\ ret.kind = "Ok" /\ ret.int = -13800
    /\ Last(wire) = LF

\* C17: the bytes written for an operation, whatever its arguments, are one
\* command line: they end with a line-feed and hold no other line-feed.
C17_OneCommandLine ==
    request.op # "none"
       => /\ wire # <<>>
          /\ Last(wire) = LF
          /\ \A i \in 1..(Len(wire) - 1) : wire[i] # LF

\* C18: when the console holds a label text without quote character and
\* without line-feed, so that its reply to label() is `OK <path tokens>
\* "<text>"`, label() returns exactly that text and does not panic.
C18_LabelDecodes ==
    \A ch \in Channels :
        LET stored == store[<<NamePath, NatToText(ch)>>]
            text == SubSeq(stored, 2, Len(stored) - 1)
        IN (/\ request.op = "label" /\ request.channel = ch
            /\ Len(stored) >= 2 /\ Head(stored) = Quote /\ Last(stored) = Quote
            /\ \A i \in DOMAIN text : text[i] # Quote /\ text[i] # LF)
              => (ret.kind = "Ok" /\ ret.text = text)

\* C16: every line the reader task sends into the queue begins with OK or
\* with ERROR, the framed lines with another prefix are dropped, and
\* send_command classifies a received line as success or as remote error.
C16_OnlyRepliesForwarded ==
    /\ forwarded = SelectSeq(framed, LAMBDA v :
                        StartsWith(v, <<"O", "K">>)
                           \/ StartsWith(v, <<"E", "R", "R", "O", "R">>))
    /\ \A i \in DOMAIN forwarded :
          ClassifyLine(forwarded[i]).class \in {"OK", "ERROR"}

C16_Witness ==
    /\ framed = <<<<"N", "O", "T", "I", "F", "Y">>, <<"E", "R", "R", "O", "R", Space, "O", "K">>>>
    /\ forwarded = <<<<"E", "R", "R", "O", "R", Space, "O", "K">>>>
    /\ stream = <<>>

\* C19: the lines framed and the lines forwarded depend on the bytes the
\* console sent only: once every byte is read they are the lines one read of
\* the whole stream yields, however the reads divided it.
C19_FramingIndependentOfReads ==
    stream = <<>>
       => /\ framed = ReadOutcome(sent).framed
          /\ forwarded = ReadOutcome(sent).forwarded

\* C20: with a console that sends one OK or ERROR line for every command, in
\* the order of the commands, the line a send_command receives, and the line
\* an operation returns, answers the command that very send_command wrote,
\* never the command of another caller or an earlier command.
C20_ReplyAnswersOwnCommand ==
    \A p \in Callers :
        /\ (pc[p] = "return" /\ reply[p].line.kind \in {"OK", "ERROR"})
              => reply[p].line.re = cmd[p]
        /\ (pc[p] = "idle" /\ result[p].line.kind \in {"OK", "ERROR"})
              => result[p].line.re = cmd[p]

C20_Witness ==
    \E p, q \in Callers :
        /\ p # q /\ op[p] = "fade" /\ fade[p].i >= 1
        /\ pc[p] = "return" /\ reply[p].kind = "Ok" /\ reply[p].line.re = cmd[p]
        /\ pc[q] = "recv" /\ cmd[q] # cmd[p]

\* C21: the lock of the idle list and the lock of the open count are held
\* for the pop, the push or the increment only: no caller holds either while
\* it establishes a Connection, sleeps or awaits a reply.
C21_LocksHeldBriefly ==
    \A p \in Callers :
        pc[p] \in {"connect", "sleep", "recv"} => (connsLock # p /\ numLock # p)

\* C22: in a fade with duration_ms / 50 >= 1 every intermediate value
\* written lies between the clamped initial and the clamped final value, so
\* within [-13800, 1000], and the intermediate values move toward the final
\* value only, never past it.
C22_NoOvershoot ==
    \A p \in Callers :
        (op[p] = "fade" /\ fade[p].duration_ms \div FadeStepMs >= 1)
           => LET f == fade[p]
                  steps == f.duration_ms \div FadeStepMs
                  init == IF f.arg_initial < -13800 THEN -13800
                          ELSE IF f.arg_initial > 1000 THEN 1000 ELSE f.arg_initial
                  fin == IF f.arg_final < -13800 THEN -13800
                         ELSE IF f.arg_final > 1000 THEN 1000 ELSE f.arg_final
                  lo == IF init <= fin THEN init ELSE fin
                  hi == IF init <= fin THEN fin ELSE init
                  written == IF Len(issued[p]) <= steps THEN Len(issued[p]) ELSE steps
              IN \A j \in 1..written :
                    /\ lo <= issued[p][j] /\ issued[p][j] <= hi
                    /\ -13800 <= issued[p][j] /\ issued[p][j] <= 1000
                    /\ j > 1 => IF init <= fin THEN issued[p][j - 1] <= issued[p][j]
                                 ELSE issued[p][j - 1] >= issued[p][j]

C22_Witness ==
    \E p \in Callers :
        /\ op[p] = "fade" /\ pc[p] = "idle" /\ result[p].kind = "Ok"
        /\ fade[p].arg_initial = 2000 /\ fade[p].arg_final = -13801
        /\ fade[p].duration_ms = 3000
        /\ issued[p][1] = 1000 /\ issued[p][60] = -13514 /\ Len(issued[p]) = 61

====
